---------------------------- MODULE Spec2Model ----------------------------
(***************************************************************************)
(* Model of gemdni's streaming client (src/src/main.rs): the loop of main  *)
(* that pulls raw JSON items from the HTTP stream, records each one,       *)
(* decodes it with parse_chunk, prints its text or its error, and hands    *)
(* the recorded items to write_log once the stream has ended.              *)
(*                                                                         *)
(* The wire types (GenerateContentResponse and its parts) live in the      *)
(* `gemini` library crate, which main.rs only imports; their decoding is   *)
(* modelled from the specification's description of the wire format and    *)
(* from the fixtures of main.rs's tests.                                   *)
(***************************************************************************)
EXTENDS Integers, Sequences, FiniteSets, TLC

VARIABLES
    pc,        \* position of main: "await", "push", "parse", "match", "write_log", "done", "panicked"
    model,     \* the model name (env MODEL, default "gemini-pro")
    input,     \* json!(request): the request payload sent to the service
    received,  \* history: the items the stream has yielded so far, in arrival order
    ended,     \* how the stream ended: "no", "eos", "transport"
    item,      \* the loop variable `item` (an option: <<>> or <<v>>)
    output,    \* the Vec `output` of main
    parsed,    \* the value parse_chunk returned for `item` (an option)
    stdout,    \* the writes made to standard output, in order
    transcript,\* the JSON value write_log built (an option)
    ret,       \* how main ended: "running", "ok", "io_error", "panic"
    results,   \* history: what each call of parse_chunk returned, in call order
    file,      \* the log file: "none", "created" (empty), "written"
    chunks,    \* the Vec `chunks` of the tests' parse_chunks
    isatty,    \* atty::is(Stream::Stdin): standard input is a terminal
    stdin,     \* the content of standard input, a sequence of characters
    stdinOk,   \* whether read_to_string on standard input succeeds
    args,      \* env::args().skip(1): the command-line arguments
    prompt     \* what read_stdin_or_arg returned (an option)

\* the process environment read_stdin_or_arg looks at, and its result
process == <<isatty, stdin, stdinOk, args, prompt>>

vars == <<pc, model, input, received, ended, item, output, parsed, stdout, transcript, ret,
          results, file, chunks, process>>

\* The longest standard input and the longest argument list explored.
MaxStdin == 3
MaxArgs == 2

\* The longest stream explored.
MaxItems == 3

(***************************************************************************)
(* Options (Rust's Option<T>) are sequences of length 0 or 1.              *)
(***************************************************************************)
None == <<>>
Some(x) == <<x>>
IsSome(o) == Len(o) = 1
Unwrap(o) == o[1]

(***************************************************************************)
(* serde_json::Value.  An object is a function from its keys to values.    *)
(***************************************************************************)
JNull == [k |-> "null"]
JNum(n) == [k |-> "num", n |-> n]
JStr(s) == [k |-> "str", s |-> s]
JArr(a) == [k |-> "arr", a |-> a]
JObj(f) == [k |-> "obj", f |-> f]
EmptyObj == JObj(<<>>)

IsObj(v) == v.k = "obj"
Has(v, key) == IsObj(v) /\ key \in DOMAIN v.f
HasNum(v, key) == Has(v, key) /\ v.f[key].k = "num"
HasStr(v, key) == Has(v, key) /\ v.f[key].k = "str"
HasArr(v, key) == Has(v, key) /\ v.f[key].k = "arr"
HasObj(v, key) == Has(v, key) /\ v.f[key].k = "obj"


(***************************************************************************)
(* The wire model of the `gemini` crate.  A decoder returns an option:     *)
(* None when the JSON value does not have the shape.                       *)
(***************************************************************************)
FinishReasons == {"FINISH_REASON_UNSPECIFIED", "STOP", "MAX_TOKENS", "SAFETY", "RECITATION", "OTHER"}

\* Part: the Text variant, or another variant (a media reference).
PartText(s) == [variant |-> "Text", text |-> s]
PartInlineData(d) == [variant |-> "InlineData", data |-> d]

DecodePart(v) ==
    IF HasStr(v, "text") THEN Some(PartText(v.f.text.s))
    ELSE IF HasObj(v, "inlineData") THEN Some(PartInlineData(v.f.inlineData))
    ELSE None

OptStr(v, key) == IF Has(v, key) THEN Some(v.f[key].s) ELSE None
OptRaw(v, key) == IF Has(v, key) THEN Some(v.f[key]) ELSE None

\* Content: { parts: [...], role? }
ContentShape(v) ==
    /\ HasArr(v, "parts")
    /\ \A i \in 1..Len(v.f.parts.a) : IsSome(DecodePart(v.f.parts.a[i]))
    /\ Has(v, "role") => HasStr(v, "role")

DecodeContent(v) ==
    IF ContentShape(v)
    THEN Some([parts |-> [i \in 1..Len(v.f.parts.a) |-> Unwrap(DecodePart(v.f.parts.a[i]))],
               role |-> OptStr(v, "role")])
    ELSE None

\* as DecodeCitationSource, with the two offsets taken from each other's field
DecodeCitationSourceSwapped(v) ==
    IF /\ HasNum(v, "startIndex") /\ HasNum(v, "endIndex")
       /\ HasStr(v, "uri") /\ HasStr(v, "license")
    THEN Some([startIndex |-> v.f.endIndex.n, endIndex |-> v.f.startIndex.n,
               uri |-> v.f.uri.s, license |-> v.f.license.s])
    ELSE None

\* CitationSource: { startIndex, endIndex, uri, license }
DecodeCitationSource(v) ==
    IF /\ HasNum(v, "startIndex") /\ HasNum(v, "endIndex")
       /\ HasStr(v, "uri") /\ HasStr(v, "license")
    THEN Some([startIndex |-> v.f.startIndex.n, endIndex |-> v.f.endIndex.n,
               uri |-> v.f.uri.s, license |-> v.f.license.s])
    ELSE None

\* CitationMetadata: { citationSources: [...] }
CitationMetadataShape(v) ==
    /\ HasArr(v, "citationSources")
    /\ \A i \in 1..Len(v.f.citationSources.a) :
          IsSome(DecodeCitationSource(v.f.citationSources.a[i]))

DecodeCitationMetadata(v) ==
    IF CitationMetadataShape(v)
    THEN Some([citationSources |-> [i \in 1..Len(v.f.citationSources.a) |->
                                       Unwrap(DecodeCitationSource(v.f.citationSources.a[i]))]])
    ELSE None

\* Candidate: { content?, finishReason?, index, safetyRatings?, citationMetadata? }
CandidateShape(v) ==
    /\ HasNum(v, "index")
    /\ Has(v, "content") => IsSome(DecodeContent(v.f.content))
    /\ Has(v, "finishReason") => (HasStr(v, "finishReason") /\ v.f.finishReason.s \in FinishReasons)
    /\ Has(v, "safetyRatings") => HasArr(v, "safetyRatings")
    /\ Has(v, "citationMetadata") => IsSome(DecodeCitationMetadata(v.f.citationMetadata))

DecodeCandidate(v) ==
    IF CandidateShape(v)
    THEN Some([index |-> v.f.index.n,
               content |-> IF Has(v, "content") THEN DecodeContent(v.f.content) ELSE None,
               finishReason |-> OptStr(v, "finishReason"),
               safetyRatings |-> OptRaw(v, "safetyRatings"),
               citationMetadata |-> IF Has(v, "citationMetadata")
                                    THEN DecodeCitationMetadata(v.f.citationMetadata)
                                    ELSE None])
    ELSE None

\* GenerateContentResponseChunk: { candidates: [...], promptFeedback? }
ChunkShape(v) ==
    /\ HasArr(v, "candidates")
    /\ \A i \in 1..Len(v.f.candidates.a) : IsSome(DecodeCandidate(v.f.candidates.a[i]))
    /\ Has(v, "promptFeedback") => HasObj(v, "promptFeedback")

DecodeChunk(v) ==
    IF ChunkShape(v)
    THEN Some([candidates |-> [i \in 1..Len(v.f.candidates.a) |->
                                  Unwrap(DecodeCandidate(v.f.candidates.a[i]))],
               promptFeedback |-> OptRaw(v, "promptFeedback")])
    ELSE None

\* GenerateContentResponseError: { error: { code, message, status } }
ErrorShape(v) ==
    /\ HasObj(v, "error")
    /\ HasNum(v.f.error, "code")
    /\ HasStr(v.f.error, "message")
    /\ HasStr(v.f.error, "status")

DecodeError(v) ==
    IF ErrorShape(v)
    THEN Some([error |-> [code |-> v.f.error.f.code.n,
                          message |-> v.f.error.f.message.s,
                          status |-> v.f.error.f.status.s]])
    ELSE None

\* GenerateContentResponse, the two-shape union: the Error shape is tried
\* first, then the Chunk shape; None when neither fits.
RespChunk(c) == [variant |-> "Chunk", chunk |-> c]
RespError(e) == [variant |-> "Error", err |-> e]

\* as FromValue, with the Chunk shape tried before the Error shape
FromValueChunkFirst(v) ==
    LET e == DecodeError(v)
        c == DecodeChunk(v)
    IN  IF IsSome(c) THEN Some(RespChunk(Unwrap(c)))
        ELSE IF IsSome(e) THEN Some(RespError(Unwrap(e)))
        ELSE None

FromValue(v) ==
    LET e == DecodeError(v)
        c == DecodeChunk(v)
    IN  IF IsSome(e) THEN Some(RespError(Unwrap(e)))
        ELSE IF IsSome(c) THEN Some(RespChunk(Unwrap(c)))
        ELSE None

(***************************************************************************)
(* Serialization of the wire model (serde_json::to_value): an absent       *)
(* optional field is left out.                                             *)
(***************************************************************************)
OptField(key, o) == IF IsSome(o) THEN key :> Unwrap(o) ELSE <<>>
OptStrField(key, o) == IF IsSome(o) THEN key :> JStr(Unwrap(o)) ELSE <<>>

SerializeCitationSource(c) ==
    JObj([startIndex |-> JNum(c.startIndex), endIndex |-> JNum(c.endIndex),
          uri |-> JStr(c.uri), license |-> JStr(c.license)])

SerializeCitationMetadata(m) ==
    JObj([citationSources |->
            JArr([i \in 1..Len(m.citationSources) |->
                    SerializeCitationSource(m.citationSources[i])])])

SerializePart(p) ==
    IF p.variant = "Text" THEN JObj([text |-> JStr(p.text)])
    ELSE JObj([inlineData |-> p.data])

SerializeContent(c) ==
    JObj([parts |-> JArr([i \in 1..Len(c.parts) |-> SerializePart(c.parts[i])])]
         @@ OptStrField("role", c.role))

SerializeCandidate(c) ==
    JObj([index |-> JNum(c.index)]
         @@ (IF IsSome(c.content) THEN "content" :> SerializeContent(Unwrap(c.content)) ELSE <<>>)
         @@ OptStrField("finishReason", c.finishReason)
         @@ OptField("safetyRatings", c.safetyRatings)
         @@ (IF IsSome(c.citationMetadata)
             THEN "citationMetadata" :> SerializeCitationMetadata(Unwrap(c.citationMetadata))
             ELSE <<>>))

SerializeChunk(chunk) ==
    JObj([candidates |-> JArr([i \in 1..Len(chunk.candidates) |->
                                  SerializeCandidate(chunk.candidates[i])])]
         @@ OptField("promptFeedback", chunk.promptFeedback))

\* The Debug rendering ({:?}) of the error detail.
DebugError(e) ==
    "{ code: " \o ToString(e.code) \o ", message: \"" \o e.message
        \o "\", status: \"" \o e.status \o "\" }"

(***************************************************************************)
(* Iterator adapters used by main.                                         *)
(***************************************************************************)
RECURSIVE FilterMapContent(_)
\* .filter_map(|candidate| match &candidate.content { Some(c) => Some(c), _ => None })
FilterMapContent(cands) ==
    IF cands = <<>> THEN <<>>
    ELSE (IF IsSome(Head(cands).content) THEN <<Unwrap(Head(cands).content)>> ELSE <<>>)
         \o FilterMapContent(Tail(cands))

\* as PartToText, rendering the other variants too
PartToTextAny(part) == Some(IF part.variant = "Text" THEN part.text ELSE "[data]")

\* |part| match part { Part::Text(text) => Some(text.clone()), _ => None }
PartToText(part) == IF part.variant = "Text" THEN Some(part.text) ELSE None

RECURSIVE FlatMapParts(_)
\* .flat_map(|content| content.parts.iter().map(...))
FlatMapParts(contents) ==
    IF contents = <<>> THEN <<>>
    ELSE [i \in 1..Len(Head(contents).parts) |-> PartToText(Head(contents).parts[i])]
         \o FlatMapParts(Tail(contents))

RECURSIVE FlattenOptions(_)
\* .flatten() over an iterator of Option<String>
FlattenOptions(opts) ==
    IF opts = <<>> THEN <<>>
    ELSE Head(opts) \o FlattenOptions(Tail(opts))

RECURSIVE CollectString(_)
\* .collect::<String>()
CollectString(strs) ==
    IF strs = <<>> THEN ""
    ELSE Head(strs) \o CollectString(Tail(strs))

\* The `text` main computes for a chunk.
ExtractText(chunk) ==
    CollectString(FlattenOptions(FlatMapParts(FilterMapContent(chunk.candidates))))

(***************************************************************************)
(* parse_chunk.  Its result: Ok(chunk), Err(err), or a panic; out is       *)
(* what it printed on the way.                                             *)
(***************************************************************************)
WriteText(s) == [by |-> "print_text", s |-> s]
WriteErrorBreak == [by |-> "println_break", s |-> "\n"]
WriteError(e) == [by |-> "println_error", s |-> "Error: " \o DebugError(e) \o "\n"]
WriteDecodeFailure(v) ==
    [by |-> "println_decode",
     s |-> "\nError: data did not match any variant of untagged enum GenerateContentResponse\nJSON: ",
     json |-> v]

\* as MatchResponse, with an Error item defaulting to an empty chunk
MatchResponseDefaultChunk(resp) ==
    IF resp.variant = "Chunk"
    THEN [kind |-> "Ok", chunk |-> resp.chunk, out |-> <<>>]
    ELSE [kind |-> "Ok", chunk |-> [candidates |-> <<>>, promptFeedback |-> None], out |-> <<>>]

\* match item { Chunk(chunk) => Ok(chunk), Error(err) => Err(err) }
MatchResponse(resp) ==
    IF resp.variant = "Chunk"
    THEN [kind |-> "Ok", chunk |-> resp.chunk, out |-> <<>>]
    ELSE [kind |-> "Err", err |-> resp.err, out |-> <<>>]

\* let Value::Object(_) = item else { panic!(...) }
NotAnObjectPanic(v) ==
    [kind |-> "Panic", msg |-> "Each item should be a chunk object!", out |-> <<>>]

\* serde_json::from_value(..).map_err(|err| println!(..)).unwrap() on Err
UnknownShapePanic(v) ==
    [kind |-> "Panic", msg |-> "called Result::unwrap() on an Err value: ()",
     out |-> <<WriteDecodeFailure(v)>>]

ParseChunk(v) ==
    IF ~IsObj(v) THEN NotAnObjectPanic(v)
    ELSE LET r == FromValue(v)
         IN  IF r = None THEN UnknownShapePanic(v) ELSE MatchResponse(Unwrap(r))

(***************************************************************************)
(* The raw items a stream may yield: chunks of the streamed response       *)
(* format, service errors, objects of neither shape, and non-objects.      *)
(***************************************************************************)
TextPartJ(s) == JObj([text |-> JStr(s)])
MediaPartJ == JObj([inlineData |-> JObj([mimeType |-> JStr("image/png")])])
CandJ(parts) ==
    JObj([content |-> JObj([parts |-> JArr(parts), role |-> JStr("model")]),
          finishReason |-> JStr("STOP"), index |-> JNum(0)])
BlockedJ(reason) == JObj([finishReason |-> JStr(reason), index |-> JNum(0)])
ChunkJ(cands) == JObj([candidates |-> JArr(cands)])
CitationSourceJ(start, end, uri) ==
    JObj([startIndex |-> JNum(start), endIndex |-> JNum(end),
          uri |-> JStr(uri), license |-> JStr("")])
CitedCandJ(parts, sources) ==
    JObj([citationMetadata |-> JObj([citationSources |-> JArr(sources)]),
          content |-> JObj([parts |-> JArr(parts), role |-> JStr("model")]),
          finishReason |-> JStr("STOP"), index |-> JNum(0)])
ErrorDetailJ(code, message, status) ==
    JObj([code |-> JNum(code), message |-> JStr(message), status |-> JStr(status)])
ErrorJ(code, message, status) == JObj([error |-> ErrorDetailJ(code, message, status)])

ChunkItems ==
    { ChunkJ(<<CandJ(<<TextPartJ("a"), MediaPartJ, TextPartJ("b")>>)>>),
      ChunkJ(<<CandJ(<<TextPartJ("b")>>), CandJ(<<TextPartJ("a")>>)>>),
      ChunkJ(<<BlockedJ("RECITATION"), CandJ(<<TextPartJ("b")>>)>>),
      ChunkJ(<<BlockedJ("SAFETY")>>),
      ChunkJ(<<BlockedJ("RECITATION")>>),
      ChunkJ(<<>>),
      ChunkJ(<<CitedCandJ(<<TextPartJ("a")>>,
                          <<CitationSourceJ(2, 132, "https://issuu.com/diekeure"),
                            CitationSourceJ(140, 150, "https://example.org")>>)>>),
      \* an incomplete `error` beside valid candidates: the Chunk shape fits
      JObj([error |-> JObj([code |-> JNum(500)]),
            candidates |-> JArr(<<CandJ(<<TextPartJ("a")>>)>>)]) }

ErrorItems ==
    { ErrorJ(503, "The model is overloaded. Please try again later.", "UNAVAILABLE"),
      \* both keys present and both shapes satisfiable
      JObj([error |-> ErrorDetailJ(429, "quota", "RESOURCE_EXHAUSTED"),
            candidates |-> JArr(<<CandJ(<<TextPartJ("b")>>)>>)]) }

UnknownShapeItems ==
    { EmptyObj,
      JObj([error |-> JObj([code |-> JNum(500)])]),
      JObj([candidates |-> JStr("none")]) }

NonObjectItems == { JArr(<<>>), JNum(7) }

RawItems == ChunkItems \cup ErrorItems \cup UnknownShapeItems \cup NonObjectItems

Models == {"gemini-pro", "gemini-ultra"}
DefaultPrompt == "Write a story about a magic backpack."

\* json!(request) for a request of one content holding the prompt as its only Text part
RequestJson(text) ==
    JObj([contents |-> JArr(<<JObj([parts |-> JArr(<<TextPartJ(text)>>)])>>)])

(***************************************************************************)
(* read_stdin_or_arg: the prompt comes from standard input when that is    *)
(* not a terminal, else from the command line, else it is the default.     *)
(* Standard input is a sequence of characters; the String returned is      *)
(* their concatenation.                                                    *)
(***************************************************************************)
\* char::is_whitespace, for the characters explored
IsWhitespace(c) == c \in {" ", "\n", "\t"}

RECURSIVE TrimStart(_)
TrimStart(cs) ==
    IF cs # <<>> /\ IsWhitespace(Head(cs)) THEN TrimStart(Tail(cs)) ELSE cs

RECURSIVE TrimEnd(_)
TrimEnd(cs) ==
    IF cs # <<>> /\ IsWhitespace(cs[Len(cs)]) THEN TrimEnd(SubSeq(cs, 1, Len(cs) - 1)) ELSE cs

\* str::trim
Trim(cs) == TrimEnd(TrimStart(cs))

RECURSIVE ToStr(_)
\* to_string: the characters as one String
ToStr(cs) == IF cs = <<>> THEN "" ELSE Head(cs) \o ToStr(Tail(cs))

Returned(s) == [kind |-> "Return", value |-> s]
Panicked(msg) == [kind |-> "Panic", msg |-> msg]

RECURSIVE JoinArgs(_)
JoinArgs(argv) ==
    IF argv = <<>> THEN ""
    ELSE IF Len(argv) = 1 THEN argv[1]
    ELSE argv[1] \o " " \o JoinArgs(Tail(argv))

\* as ReadStdinOrArg, with a single argument taking precedence over piped input
ReadStdinOrArgArgFirst(default, tty, data, readable, argv) ==
    IF Len(argv) = 1 THEN Returned(argv[1])
    ELSE IF ~tty
    THEN IF readable THEN Returned(ToStr(Trim(data))) ELSE Panicked("Failed to read input")
    ELSE CASE Len(argv) = 0 -> Returned(default)
           [] OTHER -> Panicked("Please provide at most one argument containing the prompt.")

\* as ReadStdinOrArg, with several arguments joined by spaces into one prompt
ReadStdinOrArgJoin(default, tty, data, readable, argv) ==
    IF ~tty
    THEN IF readable THEN Returned(ToStr(Trim(data))) ELSE Panicked("Failed to read input")
    ELSE CASE Len(argv) = 0 -> Returned(default)
           [] OTHER -> Returned(JoinArgs(argv))

ReadStdinOrArg(default, tty, data, readable, argv) ==
    IF ~tty
    THEN IF readable THEN Returned(ToStr(Trim(data))) ELSE Panicked("Failed to read input")
    ELSE CASE Len(argv) = 0 -> Returned(default)
           [] Len(argv) = 1 -> Returned(argv[1])
           [] OTHER -> Panicked("Please provide at most one argument containing the prompt.")

(***************************************************************************)
(* main                                                                    *)
(***************************************************************************)
Init ==
    /\ pc = "await"
    /\ model \in Models
    /\ input = RequestJson(DefaultPrompt)
    /\ received = <<>>
    /\ ended = "no"
    /\ item = None
    /\ output = <<>>
    /\ parsed = None
    /\ stdout = <<>>
    /\ transcript = None
    /\ ret = "running"
    /\ results = <<>>
    /\ file = "none"
    /\ chunks = <<>>
    /\ isatty = TRUE
    /\ stdin = <<>>
    /\ stdinOk = TRUE
    /\ args = <<>>
    /\ prompt = Some(DefaultPrompt)

\* as TryNextItem, with the next item fetched while the current one is still being matched
TryNextItemPrefetch ==
    /\ pc \in {"await", "match"}
    /\ Len(received) < MaxItems
    /\ \E v \in RawItems :
        /\ item' = Some(v)
        /\ received' = Append(received, v)
    /\ pc' = "push"
    /\ UNCHANGED <<process, chunks, results, file, model, input, ended, output, parsed, stdout, transcript, ret>>

\* while let Ok(Some(item)) = stream.try_next().await : the stream yields an item
TryNextItem ==
    /\ pc = "await"
    /\ Len(received) < MaxItems
    /\ \E v \in RawItems :
        /\ item' = Some(v)
        /\ received' = Append(received, v)
    /\ pc' = "push"
    /\ UNCHANGED <<process, chunks, results, file, model, input, ended, output, parsed, stdout, transcript, ret>>

\* as TryNextEnd, with the transport error returned from main (try_next().await?)
TryNextEndPropagate ==
    /\ pc = "await"
    /\ \E how \in {"eos", "transport"} :
        /\ ended' = how
        /\ pc' = IF how = "transport" THEN "done" ELSE "write_log"
        /\ ret' = IF how = "transport" THEN "transport_error" ELSE ret
    /\ item' = None
    /\ UNCHANGED <<process, chunks, results, file, model, input, received, output, parsed, stdout, transcript>>

\* as TryNextEnd, with a transport error reported on standard output
TryNextEndReport ==
    /\ pc = "await"
    /\ \E how \in {"eos", "transport"} :
        /\ ended' = how
        /\ stdout' = IF how = "transport"
                     THEN Append(stdout, [by |-> "println_transport", s |-> "Error: transport\n"])
                     ELSE stdout
    /\ item' = None
    /\ pc' = "write_log"
    /\ UNCHANGED <<process, chunks, results, file, model, input, received, output, parsed, transcript, ret>>

\* stream.try_next() yields Ok(None) (end of stream) or Err (transport error):
\* the pattern does not match and the loop ends
TryNextEnd ==
    /\ pc = "await"
    /\ \E how \in {"eos", "transport"} : ended' = how
    /\ item' = None
    /\ pc' = "write_log"
    /\ UNCHANGED <<process, chunks, results, file, model, input, received, output, parsed, stdout, transcript, ret>>

\* as PushOutput, inserting at the front
PushOutputFront(out, v) == <<v>> \o out

\* output.push(item.clone())
PushOutput(out, v) == Append(out, v)

\* as Push, with the record written through to the log file at every item
PushWriteThrough ==
    /\ pc = "push"
    /\ output' = PushOutput(output, Unwrap(item))
    /\ \E written \in BOOLEAN :
        /\ pc' = IF written THEN "parse" ELSE "done"
        /\ ret' = IF written THEN ret ELSE "io_error"
        /\ file' = IF written THEN "written" ELSE file
    /\ UNCHANGED <<process, chunks, results, model, input, received, ended, item, parsed, stdout, transcript>>

Push ==
    /\ pc = "push"
    /\ output' = PushOutput(output, Unwrap(item))
    /\ pc' = "parse"
    /\ UNCHANGED <<process, chunks, results, file, model, input, received, ended, item, parsed, stdout, transcript, ret>>

\* as CallParseChunk, with a decoder that remembers the error it saw last
CallParseChunkSticky ==
    /\ pc = "parse"
    /\ LET fresh == ParseChunk(Unwrap(item))
           r == IF /\ results # <<>> /\ results[Len(results)].kind = "Err"
                   /\ fresh.kind = "Ok"
                THEN results[Len(results)] ELSE fresh
       IN
        /\ results' = Append(results, r)
        /\ stdout' = stdout \o r.out
        /\ IF r.kind = "Panic"
           THEN /\ parsed' = None
                /\ pc' = "panicked"
                /\ ret' = "panic"
           ELSE /\ parsed' = Some(r)
                /\ pc' = "match"
                /\ ret' = ret
    /\ UNCHANGED <<process, chunks, file, model, input, received, ended, item, output, transcript>>

\* as CallParseChunk, with an item that fails to decode skipped instead of a panic
CallParseChunkSkip ==
    /\ pc = "parse"
    /\ LET r == ParseChunk(Unwrap(item)) IN
        /\ results' = Append(results, r)
        /\ stdout' = stdout \o r.out
        /\ IF r.kind = "Panic"
           THEN /\ parsed' = None
                /\ pc' = "await"
                /\ item' = None
           ELSE /\ parsed' = Some(r)
                /\ pc' = "match"
                /\ item' = item
    /\ UNCHANGED <<process, chunks, file, model, input, received, ended, output, transcript, ret>>

\* match parse_chunk(&item): the call; a panic unwinds out of main
CallParseChunk ==
    /\ pc = "parse"
    /\ LET r == ParseChunk(Unwrap(item)) IN
        /\ results' = Append(results, r)
        /\ stdout' = stdout \o r.out
        /\ IF r.kind = "Panic"
           THEN /\ parsed' = None
                /\ pc' = "panicked"
                /\ ret' = "panic"
           ELSE /\ parsed' = Some(r)
                /\ pc' = "match"
                /\ ret' = ret
    /\ UNCHANGED <<process, chunks, file, model, input, received, ended, item, output, transcript>>

\* as EmitChunk, with println! in place of print!
EmitChunkLn(r) == <<WriteText(ExtractText(r.chunk) \o "\n")>>

\* Ok(chunk) => { let text = ...; print!("{}", text); }
EmitChunk(r) == <<WriteText(ExtractText(r.chunk))>>

\* as EmitError, without the println!() before the error line
EmitErrorNoBreak(r) == <<WriteError(r.err.error)>>

\* Err(err) => { println!(); println!("Error: {:?}", err.error); }
EmitError(r) == <<WriteErrorBreak, WriteError(r.err.error)>>

\* as TranscriptJson, with the model name beside request and response
TranscriptJsonFlat(m, in, out) ==
    JObj([model |-> JStr(m), request |-> in, response |-> JArr(out)])

\* json!({ "meta": { "model": model }, "request": &input, "response": &output })
TranscriptJson(m, in, out) ==
    JObj([meta |-> JObj([model |-> JStr(m)]), request |-> in, response |-> JArr(out)])

\* as MatchOk, writing the transcript out after every chunk
MatchOkFlush ==
    /\ pc = "match"
    /\ Unwrap(parsed).kind = "Ok"
    /\ stdout' = stdout \o EmitChunk(Unwrap(parsed))
    /\ transcript' = Some(TranscriptJson(model, input, output))
    /\ pc' = "await"
    /\ item' = None
    /\ parsed' = None
    /\ UNCHANGED <<process, chunks, results, file, model, input, received, ended, output, ret>>

\* as MatchOk, with candidate.content.unwrap() in place of the filter_map
MatchOkUnwrapContent ==
    /\ pc = "match"
    /\ Unwrap(parsed).kind = "Ok"
    /\ IF \E i \in 1..Len(Unwrap(parsed).chunk.candidates) :
              Unwrap(parsed).chunk.candidates[i].content = None
       THEN /\ pc' = "panicked"
            /\ ret' = "panic"
            /\ UNCHANGED <<stdout, item, parsed>>
       ELSE /\ stdout' = stdout \o EmitChunk(Unwrap(parsed))
            /\ pc' = "await"
            /\ item' = None
            /\ parsed' = None
            /\ ret' = ret
    /\ UNCHANGED <<process, chunks, results, file, model, input, received, ended, output, transcript>>

\* as MatchOk, leaving the loop after the first chunk
MatchOkBreak ==
    /\ pc = "match"
    /\ Unwrap(parsed).kind = "Ok"
    /\ stdout' = stdout \o EmitChunk(Unwrap(parsed))
    /\ pc' = "write_log"
    /\ item' = None
    /\ parsed' = None
    /\ UNCHANGED <<process, chunks, results, file, model, input, received, ended, output, transcript, ret>>

MatchOk ==
    /\ pc = "match"
    /\ Unwrap(parsed).kind = "Ok"
    /\ stdout' = stdout \o EmitChunk(Unwrap(parsed))
    /\ pc' = "await"
    /\ item' = None
    /\ parsed' = None
    /\ UNCHANGED <<process, chunks, results, file, model, input, received, ended, output, transcript, ret>>

\* as MatchErr, leaving the loop after reporting the error
MatchErrBreak ==
    /\ pc = "match"
    /\ Unwrap(parsed).kind = "Err"
    /\ stdout' = stdout \o EmitError(Unwrap(parsed))
    /\ pc' = "write_log"
    /\ item' = None
    /\ parsed' = None
    /\ UNCHANGED <<process, chunks, results, file, model, input, received, ended, output, transcript, ret>>

\* as MatchErr, going on to print the candidates' text of an item that also has them
MatchErrThenChunk ==
    /\ pc = "match"
    /\ Unwrap(parsed).kind = "Err"
    /\ stdout' = stdout \o EmitError(Unwrap(parsed))
                   \o (IF IsSome(DecodeChunk(Unwrap(item)))
                       THEN <<WriteText(ExtractText(Unwrap(DecodeChunk(Unwrap(item)))))>>
                       ELSE <<>>)
    /\ pc' = "await"
    /\ item' = None
    /\ parsed' = None
    /\ UNCHANGED <<process, chunks, results, file, model, input, received, ended, output, transcript, ret>>

MatchErr ==
    /\ pc = "match"
    /\ Unwrap(parsed).kind = "Err"
    /\ stdout' = stdout \o EmitError(Unwrap(parsed))
    /\ pc' = "await"
    /\ item' = None
    /\ parsed' = None
    /\ UNCHANGED <<process, chunks, results, file, model, input, received, ended, output, transcript, ret>>

\* as WriteLog, with the file created before the JSON is built
WriteLogCreateFirst ==
    /\ pc = "write_log"
    /\ \E outcome \in {"ok", "create_failed", "write_failed"} :
        /\ ret' = IF outcome = "ok" THEN "ok" ELSE "io_error"
        /\ file' = CASE outcome = "ok" -> "written"
                     [] outcome = "create_failed" -> "none"
                     [] outcome = "write_failed" -> "created"
        /\ transcript' = IF outcome = "create_failed" THEN transcript
                         ELSE Some(TranscriptJson(model, input, output))
    /\ pc' = "done"
    /\ UNCHANGED <<process, chunks, results, model, input, received, ended, item, output, parsed, stdout>>

\* write_log(model, &input, &output)?; Ok(())
\* The JSON is built first; File::create, then write_all, may fail, and `?`
\* returns the error from write_log and from main.
WriteLog ==
    /\ pc = "write_log"
    /\ transcript' = Some(TranscriptJson(model, input, output))
    /\ \E outcome \in {"ok", "create_failed", "write_failed"} :
        /\ ret' = IF outcome = "ok" THEN "ok" ELSE "io_error"
        /\ file' = CASE outcome = "ok" -> "written"
                     [] outcome = "create_failed" -> "none"
                     [] outcome = "write_failed" -> "created"
    /\ pc' = "done"
    /\ UNCHANGED <<process, chunks, results, model, input, received, ended, item, output, parsed, stdout>>

RECURSIVE BatchWrites(_)
\* one text write per recorded item that decodes as a chunk
BatchWrites(items) ==
    IF items = <<>> THEN <<>>
    ELSE (LET r == ParseChunk(Head(items))
          IN  IF r.kind = "Ok" THEN EmitChunk(r) ELSE <<>>)
         \o BatchWrites(Tail(items))

\* as MatchOk, holding the text back
MatchOkHold ==
    /\ pc = "match"
    /\ Unwrap(parsed).kind = "Ok"
    /\ pc' = "await"
    /\ item' = None
    /\ parsed' = None
    /\ UNCHANGED <<process, chunks, results, file, model, input, received, ended, output, stdout,
                   transcript, ret>>

\* as TryNextEnd, printing the text held back
TryNextEndFlush ==
    /\ pc = "await"
    /\ \E how \in {"eos", "transport"} : ended' = how
    /\ item' = None
    /\ stdout' = stdout \o BatchWrites(output)
    /\ pc' = "write_log"
    /\ UNCHANGED <<process, chunks, results, file, model, input, received, output, parsed, transcript, ret>>

\* as Next, with the text collected during the loop and printed in a batch after it
NextBatched ==
    \/ TryNextItem
    \/ TryNextEndFlush
    \/ Push
    \/ CallParseChunk
    \/ MatchOkHold
    \/ MatchErr
    \/ WriteLog

Next ==
    \/ TryNextItem
    \/ TryNextEnd
    \/ Push
    \/ CallParseChunk
    \/ MatchOk
    \/ MatchErr
    \/ WriteLog

Spec == Init /\ [][Next]_vars

\* main is one sequential task: while a step is possible, one is taken. A stream
\* that is finite sooner or later answers try_next with an item, its end or an error.
\* The model name plays no part in the loop: one name is enough here.
InitLive == Init /\ model = "gemini-pro"

SpecLive == InitLive /\ [][Next]_vars /\ WF_vars(Next)

(***************************************************************************)
(* The tests' parse_chunks: decodes the items of a JSON array in order,    *)
(* returning the chunks, or the first service error.                       *)
(***************************************************************************)
InitTest ==
    /\ pc = "t_start"
    /\ model \in Models
    /\ input = RequestJson(DefaultPrompt)
    /\ received = <<>>
    /\ ended = "no"
    /\ item = None
    /\ output = <<>>
    /\ parsed = None
    /\ stdout = <<>>
    /\ transcript = None
    /\ ret = "running"
    /\ results = <<>>
    /\ file = "none"
    /\ chunks = <<>>
    /\ isatty = TRUE
    /\ stdin = <<>>
    /\ stdinOk = TRUE
    /\ args = <<>>
    /\ prompt = Some(DefaultPrompt)

\* let Value::Array(items) = data else { panic!("Response should be an array.") };
\* let mut chunks = Vec::new();
TestStart ==
    /\ pc = "t_start"
    /\ \E isArray \in BOOLEAN :
        /\ pc' = IF isArray THEN "t_iter" ELSE "panicked"
        /\ ret' = IF isArray THEN ret ELSE "panic"
    /\ UNCHANGED <<process, chunks, results, file, model, input, received, ended, item, output, parsed,
                   stdout, transcript>>

\* as PushChunk, inserting at the front
PushChunkFront(cs, c) == <<c>> \o cs

\* chunks.push(chunk)
PushChunk(cs, c) == Append(cs, c)

\* for item in items.iter() { match parse_chunk(item) { Ok => push, Err => return Err } }
TestStep ==
    /\ pc = "t_iter"
    /\ Len(received) < MaxItems
    /\ \E v \in RawItems :
        LET r == ParseChunk(v) IN
        /\ received' = Append(received, v)
        /\ item' = Some(v)
        /\ results' = Append(results, r)
        /\ stdout' = stdout \o r.out
        /\ chunks' = IF r.kind = "Ok" THEN PushChunk(chunks, r.chunk) ELSE chunks
        /\ parsed' = IF r.kind = "Err" THEN Some(r) ELSE parsed
        /\ pc' = CASE r.kind = "Ok" -> "t_iter"
                   [] r.kind = "Err" -> "t_done"
                   [] r.kind = "Panic" -> "panicked"
        /\ ret' = CASE r.kind = "Ok" -> ret
                    [] r.kind = "Err" -> "err"
                    [] r.kind = "Panic" -> "panic"
    /\ UNCHANGED <<process, file, model, input, ended, output, transcript>>

\* Ok(chunks)
TestReturnOk ==
    /\ pc = "t_iter"
    /\ pc' = "t_done"
    /\ ret' = "ok"
    /\ UNCHANGED <<process, chunks, results, file, model, input, received, ended, item, output, parsed,
                   stdout, transcript>>

NextTest ==
    \/ TestStart
    \/ TestStep
    \/ TestReturnOk

SpecTest == InitTest /\ [][NextTest]_vars

(***************************************************************************)
(* The start of main: the prompt is read and the request is built from it. *)
(***************************************************************************)
\* the characters standard input may hold
Chars == {"a", " ", "\n"}
\* the arguments a command line may give
ArgValues == {"hi", " hi there\n", ""}

SeqsUpTo(S, n) == UNION {[1..k -> S] : k \in 0..n}

InitPrompt ==
    /\ pc = "p_start"
    /\ model \in Models
    /\ input = JNull
    /\ received = <<>>
    /\ ended = "no"
    /\ item = None
    /\ output = <<>>
    /\ parsed = None
    /\ stdout = <<>>
    /\ transcript = None
    /\ ret = "running"
    /\ results = <<>>
    /\ file = "none"
    /\ chunks = <<>>
    /\ isatty \in BOOLEAN
    /\ stdin \in SeqsUpTo(Chars, MaxStdin)
    /\ stdinOk \in BOOLEAN
    /\ args \in SeqsUpTo(ArgValues, MaxArgs)
    /\ prompt = None

\* let prompt = read_stdin_or_arg("Write a story about a magic backpack.".to_string());
PromptCall ==
    /\ pc = "p_start"
    /\ LET r == ReadStdinOrArg(DefaultPrompt, isatty, stdin, stdinOk, args) IN
        IF r.kind = "Panic"
        THEN /\ pc' = "panicked"
             /\ ret' = "panic"
             /\ prompt' = None
        ELSE /\ pc' = "p_request"
             /\ ret' = ret
             /\ prompt' = Some(r.value)
    /\ UNCHANGED <<isatty, stdin, stdinOk, args, chunks, results, file, model, input, received,
                   ended, item, output, parsed, stdout, transcript>>

\* let request = GenerateContentRequest { .. parts: vec![Part::Text(prompt)] .. };
\* let input = json!(request);
BuildRequest ==
    /\ pc = "p_request"
    /\ input' = RequestJson(Unwrap(prompt))
    /\ pc' = "p_sent"
    /\ UNCHANGED <<process, chunks, results, file, model, received, ended, item, output,
                   parsed, stdout, transcript, ret>>

NextPrompt ==
    \/ PromptCall
    \/ BuildRequest

SpecPrompt == InitPrompt /\ [][NextPrompt]_vars

(***************************************************************************)
(* Vocabulary of the properties.                                           *)
(***************************************************************************)
\* main is between two items: about to await the next one, or past the loop
AtLoopHead == pc \in {"await", "write_log", "done"}

\* what each raw item decodes to (None: it matches neither shape)
Decoded == [v \in RawItems |-> FromValue(v)]

\* an item decodes as Chunk or as Error
WellFormed(v) == IsObj(v) /\ Decoded[v] # None
IsErrorItem(v) == WellFormed(v) /\ Unwrap(Decoded[v]).variant = "Error"
IsChunkItem(v) == WellFormed(v) /\ Unwrap(Decoded[v]).variant = "Chunk"

RECURSIVE PartsText(_, _)
\* the Text parts among the first n parts, concatenated in listed order
PartsText(parts, n) ==
    IF n = 0 THEN ""
    ELSE PartsText(parts, n - 1)
         \o (IF parts[n].variant = "Text" THEN parts[n].text ELSE "")

RECURSIVE CandidatesText(_, _)
\* the text of the first n candidates, skipping those without content
CandidatesText(cands, n) ==
    IF n = 0 THEN ""
    ELSE CandidatesText(cands, n - 1)
         \o (IF cands[n].content = None THEN ""
             ELSE PartsText(Unwrap(cands[n].content).parts, Len(Unwrap(cands[n].content).parts)))

\* the text a well-formed item contributes: nothing for an Error item
ChunkItemText(v) ==
    IF IsChunkItem(v)
    THEN CandidatesText(Unwrap(Decoded[v]).chunk.candidates,
                        Len(Unwrap(Decoded[v]).chunk.candidates))
    ELSE ""

ItemTexts == [v \in RawItems |-> ChunkItemText(v)]
ItemText(v) == ItemTexts[v]

RECURSIVE StreamText(_, _)
\* the text of the first n items of a stream, in arrival order
StreamText(items, n) ==
    IF n = 0 THEN "" ELSE StreamText(items, n - 1) \o ItemText(items[n])

RECURSIVE Content(_)
\* everything written to a channel, as one string
Content(writes) ==
    IF writes = <<>> THEN "" ELSE Head(writes).s \o Content(Tail(writes))

IsTextWrite(w) == w.by = "print_text"
IsErrorWrite(w) == w.by = "println_error"
IsEventWrite(w) == IsTextWrite(w) \/ IsErrorWrite(w)

\* the text deltas printed so far
TextWrites == SelectSeq(stdout, IsTextWrite)
\* one event per processed item: its text delta or its error line
Events == SelectSeq(stdout, IsEventWrite)

NoErrorItem(items) == \A i \in 1..Len(items) : ~IsErrorItem(items[i])

(***************************************************************************)
(* C1  Order preservation: between items and at the end of the session,    *)
(* the text deltas printed so far, concatenated, are the Text parts of     *)
(* the chunks received so far in arrival, candidate and part order, with   *)
(* Error items and content-less candidates contributing nothing; nothing   *)
(* is inserted between deltas (in a stream without Error items standard    *)
(* output holds exactly that text).                                        *)
(***************************************************************************)
C1_OrderPreservation ==
    (AtLoopHead /\ \A i \in 1..Len(received) : WellFormed(received[i]))
    => /\ Content(TextWrites) = StreamText(received, Len(received))
       /\ NoErrorItem(received) => Content(stdout) = StreamText(received, Len(received))

C1_Witness ==
    /\ pc = "done"
    /\ Len(received) = 3
    /\ IsChunkItem(received[1]) /\ ItemText(received[1]) = "ab"
    /\ IsErrorItem(received[2])
    /\ IsChunkItem(received[3]) /\ ItemText(received[3]) = "ba"
    /\ Content(TextWrites) = "abba"

NumChunksUpTo(i) == Cardinality({j \in 1..i : IsChunkItem(received[j])})
ItemsAfter(i) == SubSeq(received, i + 1, Len(received))
TextWritesAfter(i) == SubSeq(TextWrites, NumChunksUpTo(i) + 1, Len(TextWrites))

(***************************************************************************)
(* C2  Error-then-continue: processing an Error item returns main to the   *)
(* head of the loop with the stream still open; and whatever arrives       *)
(* after an Error item is still recorded in output, and the text deltas    *)
(* printed after it are the text of the chunks that follow it.             *)
(***************************************************************************)
C2_ErrorThenContinue ==
    /\ (/\ ended = "no" /\ item = None /\ received # <<>>
        /\ IsErrorItem(received[Len(received)]))
       => pc = "await"
    /\ AtLoopHead =>
        \A i \in 1..Len(received) :
            IsErrorItem(received[i]) =>
                /\ Len(output) = Len(received)
                /\ \A j \in (i + 1)..Len(received) : output[j] = received[j]
                /\ Content(TextWritesAfter(i))
                     = StreamText(ItemsAfter(i), Len(ItemsAfter(i)))

C2_Witness ==
    /\ pc = "await"
    /\ Len(received) = 3
    /\ IsErrorItem(received[1])
    /\ IsChunkItem(received[2]) /\ ItemText(received[2]) = "ab"
    /\ IsErrorItem(received[3])
    /\ output = received
    /\ Content(TextWrites) = "ab"

(***************************************************************************)
(* C3  Every raw item received, whatever its decode outcome, is in the     *)
(* response sequence of the transcript handed to write_log: once the       *)
(* session is over a transcript exists and its response is the sequence    *)
(* of items received.                                                      *)
(***************************************************************************)
C3_EveryItemInTranscript ==
    pc \in {"done", "panicked"}
    => /\ transcript # None
       /\ Unwrap(transcript).f.response = JArr(received)

(***************************************************************************)
(* C4  An object matching neither shape makes the decoder return an        *)
(* explicit UnknownShape failure carrying the raw value; decoding it       *)
(* never panics.                                                           *)
(***************************************************************************)
C4_UnknownShapeIsExplicitFailure ==
    (/\ item # None /\ pc \notin {"push", "parse"}
     /\ IsObj(Unwrap(item)) /\ FromValue(Unwrap(item)) = None)
    => /\ pc # "panicked"
       /\ parsed # None
       /\ Unwrap(parsed).kind = "UnknownShape"
       /\ Unwrap(parsed).raw = Unwrap(item)

(***************************************************************************)
(* C5  A raw item that is not a JSON object is fatal to that item only:    *)
(* after it is decoded main is still running and can pull the items that   *)
(* follow.                                                                 *)
(***************************************************************************)
C5_NonObjectFatalToItemOnly ==
    (item # None /\ pc \notin {"push", "parse"} /\ ~IsObj(Unwrap(item)))
    => /\ pc # "panicked"
       /\ ret = "running"

(***************************************************************************)
(* C6  Partial transcripts: once the stream has reported a transport       *)
(* error main pulls no more, output holds exactly the items received       *)
(* before it, and write_log is invoked with exactly those items, in        *)
(* arrival order, as the response.                                         *)
(***************************************************************************)
C6_PartialTranscript ==
    ended = "transport"
    => /\ pc \in {"write_log", "done"}
       /\ output = received
       /\ pc = "done" => /\ transcript # None
                         /\ Unwrap(transcript).f.response = JArr(received)

C6_Witness ==
    /\ ended = "transport"
    /\ pc = "done"
    /\ Len(received) = 2
    /\ transcript # None
    /\ Unwrap(transcript).f.response.a = received

(***************************************************************************)
(* C7  Shape exclusivity: parse_chunk's result for an item is Ok or Err,   *)
(* never both, and main treats each item as exactly one of the two: every  *)
(* processed item has exactly one event on standard output, a text delta   *)
(* (only for an item of the Chunk shape) or an error line (only for an     *)
(* item of the Error shape), also when the item has both keys.             *)
(***************************************************************************)
C7_ShapeExclusivity ==
    /\ pc = "match" =>
        /\ Unwrap(parsed).kind \in {"Ok", "Err"}
        /\ Unwrap(parsed).kind = "Ok" => ChunkShape(Unwrap(item))
        /\ Unwrap(parsed).kind = "Err" => ErrorShape(Unwrap(item))
    /\ AtLoopHead =>
        /\ Len(Events) = Len(received)
        /\ \A i \in 1..Len(received) :
            /\ IsTextWrite(Events[i]) => ChunkShape(received[i])
            /\ IsErrorWrite(Events[i]) => ErrorShape(received[i])

C7_Witness ==
    /\ pc = "await"
    /\ Len(received) = 2
    /\ ErrorShape(received[2]) /\ ChunkShape(received[2])
    /\ Len(Events) = 2
    /\ IsErrorWrite(Events[2])

BlockedCandidateJ(c) ==
    /\ HasStr(c, "finishReason") /\ c.f.finishReason.s \in {"SAFETY", "RECITATION"}
    /\ HasNum(c, "index")
    /\ Has(c, "safetyRatings") => HasArr(c, "safetyRatings")
    /\ DOMAIN c.f \subseteq {"finishReason", "index", "safetyRatings"}

BlockedOnly(v) ==
    /\ HasArr(v, "candidates")
    /\ DOMAIN v.f = {"candidates"}
    /\ v.f.candidates.a # <<>>
    /\ \A i \in 1..Len(v.f.candidates.a) : BlockedCandidateJ(v.f.candidates.a[i])

HasBlocked(v) ==
    /\ HasArr(v, "candidates")
    /\ \E i \in 1..Len(v.f.candidates.a) : BlockedCandidateJ(v.f.candidates.a[i])

(***************************************************************************)
(* C8  Blocked-candidate boundary: a chunk whose candidates all have a     *)
(* blocking finishReason (SAFETY, RECITATION) and no content decodes as    *)
(* Ok, prints the empty text delta, and neither panics nor is reported as  *)
(* an error; a blocked candidate beside others adds nothing to the         *)
(* chunk's delta.                                                          *)
(***************************************************************************)
C8_BlockedCandidate ==
    /\ (item # None /\ HasBlocked(Unwrap(item)) /\ IsChunkItem(Unwrap(item)))
       => pc # "panicked"
    /\ (pc = "match" /\ BlockedOnly(Unwrap(item))) => Unwrap(parsed).kind = "Ok"
    /\ AtLoopHead =>
        \A i \in 1..Len(received) :
            /\ BlockedOnly(received[i]) => (i <= Len(Events) /\ Events[i] = WriteText(""))
            /\ (HasBlocked(received[i]) /\ IsChunkItem(received[i]))
               => (i <= Len(Events) /\ Events[i] = WriteText(ItemText(received[i])))

C8_Witness ==
    /\ pc = "await"
    /\ Len(received) = 3
    /\ BlockedOnly(received[1]) /\ received[1].f.candidates.a[1].f.finishReason.s = "RECITATION"
    /\ HasBlocked(received[2]) /\ ItemText(received[2]) = "b"
    /\ BlockedOnly(received[3]) /\ received[3].f.candidates.a[1].f.finishReason.s = "SAFETY"
    /\ Content(stdout) = "b"

(***************************************************************************)
(* C9  Text extraction of one chunk: the delta printed for a Chunk item    *)
(* is the concatenation, over its candidates in listed order and skipping  *)
(* those without content, of its Text parts in the order given; parts of   *)
(* other variants add nothing.                                             *)
(***************************************************************************)
C9_TextExtraction ==
    AtLoopHead =>
        \A i \in 1..Len(received) :
            IsChunkItem(received[i])
            => (i <= Len(Events) /\ Events[i] = WriteText(ItemText(received[i])))

C9_Witness ==
    /\ pc = "await"
    /\ Len(received) = 2
    /\ received[1] = ChunkJ(<<CandJ(<<TextPartJ("a"), MediaPartJ, TextPartJ("b")>>)>>)
    /\ received[2] = ChunkJ(<<CandJ(<<TextPartJ("b")>>), CandJ(<<TextPartJ("a")>>)>>)
    /\ Events = <<WriteText("ab"), WriteText("ba")>>

(***************************************************************************)
(* C10  Service errors are not mixed into the text stream: processing an   *)
(* Error item adds nothing to the channel that carries the text deltas,    *)
(* so between items standard output holds exactly the concatenated text    *)
(* of the Chunk items received.                                            *)
(***************************************************************************)
C10_ErrorsNotInTextChannel ==
    AtLoopHead => Content(stdout) = StreamText(received, Len(received))

\* the code, message and status of a raw item of the Error shape
RawErrorDetail(v) ==
    [code |-> v.f.error.f.code.n,
     message |-> v.f.error.f.message.s,
     status |-> v.f.error.f.status.s]

NumErrorShaped == Cardinality({i \in 1..Len(received) : ErrorShape(received[i])})

(***************************************************************************)
(* C11  An item of the Error shape decodes as Error: parse_chunk returns   *)
(* Err carrying the item's code, message and status; the item adds no      *)
(* text delta (a stream of that single item leaves the text empty); and    *)
(* exactly one error event, carrying the item's code and status, is        *)
(* printed for it.                                                         *)
(***************************************************************************)
C11_ErrorItemDecodesAsError ==
    /\ (pc = "match" /\ ErrorShape(Unwrap(item))) =>
        /\ Unwrap(parsed).kind = "Err"
        /\ Unwrap(parsed).err.error = RawErrorDetail(Unwrap(item))
    /\ AtLoopHead =>
        /\ \A i \in 1..Len(received) :
             ErrorShape(received[i])
             => (i <= Len(Events) /\ Events[i] = WriteError(RawErrorDetail(received[i])))
        /\ Len(SelectSeq(stdout, IsErrorWrite)) = NumErrorShaped
        /\ Len(TextWrites) + NumErrorShaped = Len(received)

C11_Witness ==
    /\ pc = "done"
    /\ received = <<ErrorJ(503, "The model is overloaded. Please try again later.", "UNAVAILABLE")>>
    /\ results[1].kind = "Err"
    /\ results[1].err.error.code = 503
    /\ results[1].err.error.status = "UNAVAILABLE"
    /\ TextWrites = <<>>
    /\ Len(Events) = 1

C13_TranscriptShape ==
    transcript # None =>
        /\ IsObj(Unwrap(transcript))
        /\ DOMAIN Unwrap(transcript).f = {"meta", "request", "response"}
        /\ Unwrap(transcript).f.meta = JObj([model |-> JStr(model)])
        /\ Unwrap(transcript).f.request = RequestJson(DefaultPrompt)
        /\ Unwrap(transcript).f.request = input
        /\ Unwrap(transcript).f.response = JArr(received)

C13_Witness ==
    /\ pc = "done"
    /\ model = "gemini-ultra"
    /\ Len(received) = 3
    /\ received[1] # received[2] /\ received[1] = received[3]
    /\ Unwrap(transcript).f.response.a = received

(***************************************************************************)
(* C14  No incremental flushing: the transcript is built at most once,     *)
(* by write_log, and only after the stream has ended; write_log is never   *)
(* reached while the stream is still open.                                 *)
(***************************************************************************)
C14_NoIncrementalFlushing ==
    [][ /\ (transcript' # transcript)
           => (transcript = None /\ pc = "write_log" /\ ended # "no")
        /\ (pc' = "write_log") => ended' # "no" ]_vars

C14_Witness ==
    /\ pc = "done"
    /\ ended = "eos"
    /\ Len(received) = 2
    /\ transcript # None

(***************************************************************************)
(* C15  A malformed item does not corrupt what was accumulated for the     *)
(* items before it: once an object of neither shape has failed to decode,  *)
(* the text printed for the earlier items and the raw items recorded are   *)
(* unchanged, the failure has been reported with the raw payload, and      *)
(* main is still running, so that the record remains obtainable.           *)
(***************************************************************************)
C15_MalformedItemKeepsState ==
    (/\ item # None /\ pc \notin {"push", "parse"}
     /\ IsObj(Unwrap(item)) /\ FromValue(Unwrap(item)) = None)
    => /\ output = received
       /\ Content(TextWrites) = StreamText(received, Len(received) - 1)
       /\ stdout # <<>> /\ stdout[Len(stdout)] = WriteDecodeFailure(Unwrap(item))
       /\ ret = "running"

(***************************************************************************)
(* C16  The decoder is pure: a call of parse_chunk, on any raw item,       *)
(* changes no state and writes no output; it leaves standard output, the   *)
(* item, the record and the transcript as they were.                       *)
(***************************************************************************)
C16_DecoderIsPure ==
    [][ pc = "parse"
        => /\ stdout' = stdout
           /\ item' = item
           /\ output' = output
           /\ received' = received
           /\ transcript' = transcript
           /\ file' = file ]_vars

C19_TranscriptIndependentOfPersistence ==
    /\ file # "none" => transcript # None
    /\ (pc = "done" /\ ret = "io_error") =>
        /\ transcript = Some(TranscriptJson(model, RequestJson(DefaultPrompt), received))
        /\ input = RequestJson(DefaultPrompt)
        /\ output = received

C19_Witness ==
    /\ pc = "done"
    /\ ret = "io_error"
    /\ file = "none"
    /\ Len(received) = 2
    /\ transcript # None

\* a raw candidate that carries citationMetadata
HasCitation(c) == HasObj(c, "citationMetadata")
CitedCandidates(v) ==
    IF HasArr(v, "candidates")
    THEN {i \in 1..Len(v.f.candidates.a) : HasCitation(v.f.candidates.a[i])}
    ELSE {}

\* a decoded citation source holds the raw source's four fields
SameSource(dec, raw) ==
    /\ dec.startIndex = raw.f.startIndex.n
    /\ dec.endIndex = raw.f.endIndex.n
    /\ dec.license = raw.f.license.s
    /\ dec.uri = raw.f.uri.s

(***************************************************************************)
(* C20  A Chunk item that carries citationMetadata decodes as Ok; every    *)
(* citation source of the raw item is in the decoded candidate, in order,  *)
(* with its offsets, license and uri; and re-serializing the decoded       *)
(* chunk gives back the raw item's citationMetadata.                       *)
(***************************************************************************)
C20_CitationRoundTrip ==
    \A k \in 1..Len(results) :
        (IsChunkItem(received[k]) /\ CitedCandidates(received[k]) # {}) =>
            /\ results[k].kind = "Ok"
            /\ \A i \in CitedCandidates(received[k]) :
                LET raw == received[k].f.candidates.a[i].f.citationMetadata
                    dec == results[k].chunk.candidates[i].citationMetadata
                IN  /\ IsSome(dec)
                    /\ Len(Unwrap(dec).citationSources) = Len(raw.f.citationSources.a)
                    /\ \A j \in 1..Len(raw.f.citationSources.a) :
                         SameSource(Unwrap(dec).citationSources[j], raw.f.citationSources.a[j])
                    /\ SerializeChunk(results[k].chunk).f.candidates.a[i].f.citationMetadata = raw

C20_Witness ==
    /\ Len(results) = 2
    /\ CitedCandidates(received[2]) = {1}
    /\ results[2].kind = "Ok"
    /\ Unwrap(results[2].chunk.candidates[1].citationMetadata).citationSources[2].startIndex = 140

\* parse_chunks was given an array: it is iterating it, has returned, or has
\* panicked on one of its items
IteratingArray ==
    \/ pc \in {"t_iter", "t_done"}
    \/ pc = "panicked" /\ received # <<>>

(***************************************************************************)
(* C18  Whole-stream decode of well-formed chunks: when every item of the  *)
(* array is a well-formed Chunk item, parse_chunks neither panics nor      *)
(* returns Err, and returns Ok with one decoded chunk per item in array    *)
(* order; each chunk holds its item's text, and a chunk whose only         *)
(* candidate is blocked (SAFETY, no content) holds none.                   *)
(***************************************************************************)
C18_WholeStreamDecode ==
    (IteratingArray /\ \A i \in 1..Len(received) : IsChunkItem(received[i]))
    => /\ pc # "panicked"
       /\ ret \in {"running", "ok"}
       /\ pc = "t_done" => ret = "ok"
       /\ Len(chunks) = Len(received)
       /\ \A i \in 1..Len(received) :
            /\ chunks[i] = Unwrap(Decoded[received[i]]).chunk
            /\ ExtractText(chunks[i]) = ItemText(received[i])
            /\ BlockedOnly(received[i]) => ExtractText(chunks[i]) = ""

C18_Witness ==
    /\ pc = "t_done"
    /\ ret = "ok"
    /\ Len(received) = 3
    /\ ItemText(received[1]) = "ab"
    /\ ItemText(received[2]) = "ba"
    /\ received[3] = ChunkJ(<<BlockedJ("SAFETY")>>)
    /\ Len(chunks) = 3
    /\ ExtractText(chunks[1]) = "ab" /\ ExtractText(chunks[3]) = ""

(***************************************************************************)
(* C21  Sequential processing: an item is pulled only when no item is in   *)
(* hand, and by then every item pulled before it has been recorded,        *)
(* decoded and has had its text or error line printed; at any time at      *)
(* most one pulled item is not yet recorded, the item in hand is the last  *)
(* one pulled, and between items none is in hand.                          *)
(***************************************************************************)
C21_SequentialProcessing ==
    /\ [](/\ Len(received) - Len(output) \in {0, 1}
          /\ Len(received) - Len(results) \in {0, 1}
          /\ (item = None) <=> AtLoopHead
          /\ item # None => Unwrap(item) = received[Len(received)]
          /\ parsed # None => (item # None /\ pc = "match"
                               /\ Unwrap(parsed) = results[Len(received)]))
    /\ [][ received' # received
           => /\ item = None /\ parsed = None
              /\ output = received
              /\ Len(results) = Len(received)
              /\ Len(Events) = Len(received) ]_vars

C21_Witness ==
    /\ pc = "push"
    /\ Len(received) = 2
    /\ Len(output) = 1
    /\ Len(results) = 1
    /\ Len(Events) = 1
    /\ item = Some(received[2])

\* every item before the n-th decodes as Chunk or as Error
AllWellFormed(items, n) == \A i \in 1..n : WellFormed(items[i])

(***************************************************************************)
(* C22  Run to completion: the session always ends, and it ends by a       *)
(* panic only when the last item pulled is malformed, so a stream of       *)
(* well-formed items is run to completion; the loop is left only when the  *)
(* stream reports its end or an error, never after a Chunk or an Error     *)
(* item, and by then every item pulled has been recorded and decoded       *)
(* once, in order, and has had its event printed; write_log is then        *)
(* invoked once and nothing happens after it.                              *)
(***************************************************************************)
C22_RunToCompletion ==
    /\ <>(pc \in {"done", "panicked"})
    /\ [](pc = "panicked" => ~WellFormed(received[Len(received)]))
    /\ [](pc \in {"write_log", "done"}
          => /\ ended # "no"
             /\ AllWellFormed(received, Len(received))
             /\ output = received
             /\ Len(results) = Len(received)
             /\ \A i \in 1..Len(received) : results[i] = ParseChunk(received[i])
             /\ Len(Events) = Len(received))
    /\ [](transcript # None <=> pc = "done")
    /\ [][ /\ pc = "write_log" => pc' = "done"
           /\ pc # "done"
           /\ (pc = "match" /\ WellFormed(Unwrap(item))) => pc' = "await" ]_vars

C22_Witness ==
    /\ pc = "done"
    /\ Len(received) = 3
    /\ IsChunkItem(received[1]) /\ IsErrorItem(received[2]) /\ IsChunkItem(received[3])
    /\ transcript # None
    /\ Len(Events) = 3

\* a raw object carries a candidates array the Chunk shape accepts
CandidatesFit(v) == IsObj(v) /\ ChunkShape(v)
\* a raw object satisfies the Error shape
ErrorFits(v) == IsObj(v) /\ ErrorShape(v)

(***************************************************************************)
(* C23  The Error shape is tried first: every item decoded so far whose    *)
(* error object has code, message and status came back from parse_chunk    *)
(* as Err with exactly those details, also when its candidates array       *)
(* fits the Chunk shape; an item came back as Ok only when the Error       *)
(* shape does not fit it and the Chunk shape does, and then with the       *)
(* chunk the Chunk shape decodes.                                          *)
(***************************************************************************)
C23_ErrorShapeFirst ==
    \A i \in 1..Len(results) :
        LET v == received[i]
            r == results[i]
        IN  /\ ErrorFits(v)
               => (r.kind = "Err" /\ r.err.error = RawErrorDetail(v))
            /\ r.kind = "Ok"
               => (~ErrorFits(v) /\ CandidatesFit(v) /\ r.chunk = Unwrap(DecodeChunk(v)))
            /\ (IsObj(v) /\ ~ErrorFits(v) /\ CandidatesFit(v)) => r.kind = "Ok"

C23_Witness ==
    /\ Len(results) = 2
    /\ ErrorFits(received[1]) /\ CandidatesFit(received[1])
    /\ results[1].kind = "Err"
    /\ results[1].err.error.code = 429
    /\ Has(received[2], "error") /\ ~ErrorFits(received[2])
    /\ results[2].kind = "Ok"

\* the sequence a is an initial segment of the sequence b
IsPrefix(a, b) == Len(a) <= Len(b) /\ \A i \in 1..Len(a) : a[i] = b[i]

(***************************************************************************)
(* C24  Record prefix: whenever main is about to await the next item, the  *)
(* Vec output is the sequence of raw items received so far, element for    *)
(* element and in arrival order, as long as the number of items pulled;    *)
(* at every moment it is an initial segment of that sequence, and the      *)
(* only change it ever undergoes is one push of the item in hand at its    *)
(* end.                                                                    *)
(***************************************************************************)
C24_RecordPrefix ==
    /\ [](/\ pc = "await" => (output = received /\ Len(output) = Len(received))
          /\ IsPrefix(output, received))
    /\ [][ output' # output
           => /\ item # None
              /\ output' = Append(output, Unwrap(item))
              /\ output' = received ]_vars

C24_Witness ==
    /\ pc = "await"
    /\ Len(output) = 2
    /\ output[1] # output[2]
    /\ output = received

(***************************************************************************)
(* C25  Abort on decode failure: an item that is no object, or an object   *)
(* of neither shape, is pushed onto output before parse_chunk is called    *)
(* on it, and that call panics: main ends there with output holding the    *)
(* item, the stream not read further, no text delta and no error event     *)
(* printed beyond those of the items before it, write_log never called     *)
(* (no transcript built, no file created), and no step after the panic.    *)
(***************************************************************************)
C25_AbortOnDecodeFailure ==
    /\ [](/\ pc = "panicked"
             => /\ ~WellFormed(received[Len(received)])
                /\ AllWellFormed(received, Len(received) - 1)
                /\ output = received
                /\ ret = "panic" /\ ended = "no"
                /\ transcript = None /\ file = "none"
                /\ Content(TextWrites) = StreamText(received, Len(received) - 1)
                /\ Len(Events) = Len(received) - 1
          /\ (item # None /\ ~WellFormed(Unwrap(item)))
             => /\ pc \in {"push", "parse", "panicked"}
                /\ pc # "push" => output = received)
    /\ [][ /\ pc # "panicked"
           /\ (pc = "parse" /\ ~WellFormed(Unwrap(item)))
              => /\ pc' = "panicked"
                 /\ output = received /\ output' = output /\ received' = received
                 /\ SelectSeq(stdout', IsEventWrite) = Events ]_vars

C25_Witness ==
    /\ pc = "panicked"
    /\ Len(received) = 3
    /\ IsChunkItem(received[1]) /\ ItemText(received[1]) = "ab"
    /\ IsErrorItem(received[2])
    /\ IsObj(received[3]) /\ ~WellFormed(received[3])
    /\ output = received
    /\ transcript = None

(***************************************************************************)
(* C26  A transport error ends the loop as the end of the stream does:     *)
(* the step in which try_next reports either of them changes nothing but   *)
(* the position of main, which moves on to write_log; nothing is printed   *)
(* for it; and a session whose stream ended in a transport error returns   *)
(* Ok exactly when write_log succeeds, with the same transcript of the     *)
(* items received, and never returns the transport error.                  *)
(***************************************************************************)
C26_TransportErrorIsEndOfStream ==
    /\ [][ ended' # ended
           => /\ pc = "await" /\ pc' = "write_log"
              /\ ended = "no" /\ ended' \in {"eos", "transport"}
              /\ UNCHANGED <<model, input, received, item, output, parsed, stdout,
                             transcript, ret, results, file>> ]_vars
    /\ [](ended = "transport"
          => /\ pc \in {"write_log", "done"}
             /\ ret \in {"running", "ok", "io_error"}
             /\ \A i \in 1..Len(stdout) : stdout[i].by \in {"print_text", "println_break", "println_error"}
             /\ Len(Events) = Len(received)
             /\ pc = "done"
                => /\ ret = "ok" <=> file = "written"
                   /\ ret # "running"
                   /\ transcript = Some(TranscriptJson(model, input, received)))

C26_Witness ==
    /\ pc = "done"
    /\ ended = "transport"
    /\ ret = "ok"
    /\ file = "written"
    /\ Len(received) = 2

(***************************************************************************)
(* C27  A persistence failure is reported last: main returns an I/O error  *)
(* only from write_log, exactly when the file could not be created or      *)
(* written; by then the stream has ended, every item received has been     *)
(* recorded and has had its text delta or error event printed, and the     *)
(* failing write_log leaves standard output and the record as they were.   *)
(***************************************************************************)
C27_PersistenceFailureLast ==
    /\ [](/\ ret = "io_error"
             => /\ pc = "done" /\ ended # "no"
                /\ file \in {"none", "created"}
                /\ AllWellFormed(received, Len(received))
                /\ output = received
                /\ Len(Events) = Len(received)
                /\ Content(TextWrites) = StreamText(received, Len(received))
          /\ (pc = "done" /\ file # "written") => ret = "io_error")
    /\ [][ (ret' = "io_error" /\ ret # "io_error")
           => /\ pc = "write_log"
              /\ stdout' = stdout /\ output' = output /\ received' = received ]_vars

C27_Witness ==
    /\ pc = "done"
    /\ ret = "io_error"
    /\ file = "created"
    /\ Len(received) = 2
    /\ IsChunkItem(received[1]) /\ IsErrorItem(received[2])
    /\ Len(Events) = 2

\* the writes of one decoded item: its text as one print!, or a line break and the error line
ItemOutput(v) ==
    IF IsChunkItem(v) THEN <<[by |-> "print_text", s |-> ItemText(v)]>>
    ELSE <<[by |-> "println_break", s |-> "\n"],
           [by |-> "println_error",
            s |-> "Error: " \o DebugError(RawErrorDetail(v)) \o "\n"]>>

RECURSIVE StreamOutput(_, _)
\* the writes of the first n items of a stream
StreamOutput(items, n) ==
    IF n = 0 THEN <<>> ELSE StreamOutput(items, n - 1) \o ItemOutput(items[n])

(***************************************************************************)
(* C28  Per-item output shape: the step that finishes an item parse_chunk  *)
(* decoded appends to standard output, for a Chunk item, one write of      *)
(* exactly its extracted text (nothing added, possibly the empty string)   *)
(* and, for an Error item, exactly a line break and then the one line      *)
(* Error: <details>; never both and never anything else, so between items  *)
(* standard output is the concatenation of these per-item outputs in       *)
(* arrival order. For an item parse_chunk panics on, the loop itself       *)
(* prints nothing: what follows the earlier items' output is what          *)
(* parse_chunk printed.                                                    *)
(***************************************************************************)
C28_PerItemOutputShape ==
    /\ [][ pc = "match"
           => /\ stdout' = stdout \o ItemOutput(Unwrap(item))
              /\ IsChunkItem(Unwrap(item)) => Len(stdout') = Len(stdout) + 1
              /\ IsErrorItem(Unwrap(item)) => Len(stdout') = Len(stdout) + 2 ]_vars
    /\ [](/\ AtLoopHead => stdout = StreamOutput(received, Len(received))
          /\ pc = "panicked"
             => stdout = StreamOutput(received, Len(received) - 1)
                           \o results[Len(results)].out
          /\ pc = "match" => (IsChunkItem(Unwrap(item)) /\ Unwrap(parsed).kind = "Ok")
                             \/ (IsErrorItem(Unwrap(item)) /\ Unwrap(parsed).kind = "Err"))

C28_Witness ==
    /\ pc = "await"
    /\ Len(received) = 3
    /\ ItemText(received[1]) = "ab"
    /\ IsErrorItem(received[2])
    /\ IsChunkItem(received[3]) /\ ItemText(received[3]) = ""
    /\ Len(stdout) = 4
    /\ stdout[1].s = "ab" /\ stdout[2].s = "\n" /\ stdout[4].s = ""

\* read_stdin_or_arg has been called
PromptRead == pc \in {"p_request", "p_sent", "panicked"}

\* r is data without its leading and trailing whitespace
IsTrimOf(r, data) ==
    \E i \in 0..Len(data) : \E j \in i..Len(data) :
        /\ r = SubSeq(data, i + 1, j)
        /\ \A k \in 1..i : IsWhitespace(data[k])
        /\ \A k \in (j + 1)..Len(data) : IsWhitespace(data[k])
        /\ r # <<>> => (~IsWhitespace(r[1]) /\ ~IsWhitespace(r[Len(r)]))

(***************************************************************************)
(* C29  Prompt source precedence: when standard input is not a terminal    *)
(* and can be read, read_stdin_or_arg returns all of standard input less   *)
(* its leading and trailing whitespace (inner whitespace kept), whatever   *)
(* the command line holds: zero, one or more arguments change nothing      *)
(* and none of them makes it panic. (When standard input cannot be read    *)
(* it panics.)                                                             *)
(***************************************************************************)
C29_StdinTakesPrecedence ==
    (PromptRead /\ ~isatty)
    => IF stdinOk
       THEN /\ pc # "panicked"
            /\ prompt # None
            /\ \E i \in 0..Len(stdin) : \E j \in i..Len(stdin) :
                 /\ IsTrimOf(SubSeq(stdin, i + 1, j), stdin)
                 /\ Unwrap(prompt) = ToStr(SubSeq(stdin, i + 1, j))
            /\ pc = "p_sent" => input = RequestJson(Unwrap(prompt))
       ELSE pc = "panicked" /\ prompt = None

C29_Witness ==
    /\ pc = "p_request"
    /\ ~isatty
    /\ Len(args) = 2
    /\ stdin = <<" ", "a", "\n">>
    /\ prompt = Some("a")

(***************************************************************************)
(* C30  Prompt from arguments: when standard input is a terminal,          *)
(* read_stdin_or_arg returns the default prompt when there is no           *)
(* argument, the argument itself, whitespace included, when there is       *)
(* exactly one, and panics when there are two or more, so that no prompt   *)
(* is ever returned for a command line of several arguments; standard      *)
(* input is not looked at.                                                 *)
(***************************************************************************)
C30_PromptFromArguments ==
    (PromptRead /\ isatty)
    => /\ Len(args) = 0 => (pc # "panicked" /\ prompt = Some(DefaultPrompt))
       /\ Len(args) = 1 => (pc # "panicked" /\ prompt = Some(args[1]))
       /\ Len(args) >= 2 => (pc = "panicked" /\ prompt = None /\ ret = "panic")

C30_Witness ==
    /\ pc = "p_request"
    /\ isatty
    /\ args = <<" hi there\n">>
    /\ stdin = <<"a">>
    /\ prompt = Some(" hi there\n")

=============================================================================
